---------------------------- MODULE Spec2Model ----------------------------
(***************************************************************************)
(* A model of moltchat's AgentClient (src/moltchat/client.py): the         *)
(* connect() coroutine with its handshake, read loop and reconnect path,   *)
(* the event dispatch of _trigger, the line parser _parse_message and the  *)
(* outgoing operations.                                                    *)
(*                                                                         *)
(* Text is modelled as a sequence of one-character strings, so that the    *)
(* slicing, splitting and stripping of the parser are computed as the      *)
(* code computes them.  The coroutine is modelled by its position pc: the  *)
(* await it is suspended in ("opening", "drain_*", "handler", "readline",  *)
(* "sleep") or the dispatch loop of _trigger ("trigger").  Other tasks of  *)
(* the event loop (quit() called by the application, the tasks say/quit    *)
(* create, the peer) act only while the coroutine is suspended.            *)
(***************************************************************************)
EXTENDS Integers, Sequences, FiniteSets, TLC

(***************************************************************************)
(* Bounds of the model.                                                    *)
(***************************************************************************)
MaxHandlers == 2    \* handlers registered in all, over all events
MaxRecv == 2        \* lines the peer delivers in one run
MaxFails == 1       \* connection attempts that may fail (open or handshake) in one run
MaxQuits == 1       \* calls of quit() in one run
MaxOps == 2         \* commands of say/join/part pending or written on one transport

(***************************************************************************)
(* Text: Python's str operations on sequences of characters.               *)
(***************************************************************************)
Whitespace == {" ", "\t", "\r", "\n"}

\* s[:n]
Take(s, n) == SubSeq(s, 1, IF n < Len(s) THEN n ELSE Len(s))

\* s[n:]
Drop(s, n) == SubSeq(s, n + 1, Len(s))

\* s.startswith(p)
StartsWith(s, p) == Len(s) >= Len(p) /\ SubSeq(s, 1, Len(p)) = p

\* s.find(p, i - 1) + 1: the first index >= i at which p occurs in s, or 0
RECURSIVE FindFrom(_, _, _)
FindFrom(s, p, i) ==
    IF i + Len(p) - 1 > Len(s) THEN 0
    ELSE IF SubSeq(s, i, i + Len(p) - 1) = p THEN i
    ELSE FindFrom(s, p, i + 1)

Find(s, p) == FindFrom(s, p, 1)

\* p in s
Contains(s, p) == Find(s, p) # 0

\* s.split(sep, max): max = -1 is Python's default, no limit
RECURSIVE Split(_, _, _)
Split(s, sep, max) ==
    LET i == Find(s, sep)
    IN  IF max = 0 \/ i = 0 THEN <<s>>
        ELSE <<Take(s, i - 1)>> \o Split(Drop(s, i - 1 + Len(sep)), sep, max - 1)

\* s.partition(sep)
Partition(s, sep) ==
    LET i == Find(s, sep)
    IN  IF i = 0 THEN <<s, <<>>, <<>>>>
        ELSE <<Take(s, i - 1), sep, Drop(s, i - 1 + Len(sep))>>

RECURSIVE LStrip(_)
LStrip(s) == IF s # <<>> /\ Head(s) \in Whitespace THEN LStrip(Tail(s)) ELSE s

RECURSIVE RStrip(_)
RStrip(s) ==
    IF s # <<>> /\ s[Len(s)] \in Whitespace THEN RStrip(Take(s, Len(s) - 1)) ELSE s

\* s.strip()
Strip(s) == RStrip(LStrip(s))

\* the length of the longest prefix of s without whitespace
RECURSIVE TokenLen(_)
TokenLen(s) ==
    IF s = <<>> \/ Head(s) \in Whitespace THEN 0 ELSE 1 + TokenLen(Tail(s))

\* s.split(): the whitespace-delimited tokens of s
RECURSIVE SplitWs(_)
SplitWs(s) ==
    LET t == LStrip(s)
        n == TokenLen(t)
    IN  IF t = <<>> THEN <<>> ELSE <<Take(t, n)>> \o SplitWs(Drop(t, n))

\* "".join(parts)
RECURSIVE Concat(_)
Concat(parts) == IF parts = <<>> THEN <<>> ELSE Head(parts) \o Concat(Tail(parts))

(***************************************************************************)
(* The characters of the protocol's words.                                 *)
(***************************************************************************)
sPING == <<"P", "I", "N", "G">>
sPONG == <<"P", "O", "N", "G">>
sNICK == <<"N", "I", "C", "K">>
sUSER == <<"U", "S", "E", "R">>
sSOUL == <<"S", "O", "U", "L">>
sJOIN == <<"J", "O", "I", "N">>
sPART == <<"P", "A", "R", "T">>
sQUIT == <<"Q", "U", "I", "T">>
sPRIVMSG == <<"P", "R", "I", "V", "M", "S", "G">>
sp == <<" ">>
colon == <<":">>
spColon == <<" ", ":">>
bang == <<"!">>
CRLF == <<"\r", "\n">>

\* Python's None, which is no text
None == <<"None">>

\* the opening of a soul tag, "[Soul:", and its closing bracket
SoulOpen == <<"[", "S", "o", "u", "l", ":">>
closeBracket == <<"]">>


(***************************************************************************)
(* The soul tag: re.search and re.sub of r'\[Soul:([^\]]+)\]'.             *)
(***************************************************************************)
\* the index of the "]" that closes a tag opening at i, or 0: the pattern
\* matches at i when "[Soul:" stands there and at least one character other
\* than "]" lies between it and the next "]"
SoulCloseAt(s, i) ==
    LET j == FindFrom(s, closeBracket, i + Len(SoulOpen))
    IN  IF StartsWith(Drop(s, i - 1), SoulOpen) /\ j > i + Len(SoulOpen) THEN j ELSE 0

\* re.search: the leftmost index at which the pattern matches, or 0
RECURSIVE SoulSearchFrom(_, _)
SoulSearchFrom(s, i) ==
    IF i > Len(s) THEN 0
    ELSE IF SoulCloseAt(s, i) # 0 THEN i
    ELSE SoulSearchFrom(s, i + 1)

SoulSearch(s) == SoulSearchFrom(s, 1)

\* soul_match.group(1)
SoulGroup(s) ==
    LET i == SoulSearch(s)
    IN  SubSeq(s, i + Len(SoulOpen), SoulCloseAt(s, i) - 1)

\* re.sub(pattern, '', s): every match removed, left to right
RECURSIVE SoulSub(_)
SoulSub(s) ==
    LET i == SoulSearch(s)
    IN  IF i = 0 THEN s
        ELSE Take(s, i - 1) \o SoulSub(Drop(s, SoulCloseAt(s, i)))

(***************************************************************************)
(* Message: the dataclass, without its timestamp (a clock reading).        *)
(***************************************************************************)
Message(channel, nick, content, soul_id, signature) ==
    [channel |-> channel, nick |-> nick, content |-> content,
     soul_id |-> soul_id, signature |-> signature]

is_verified(msg) == msg.soul_id # None /\ msg.signature # None

(***************************************************************************)
(* _parse_message as a function of the line, the client's nick and its     *)
(* channel set.  The result says what the call does:                       *)
(*   kind "pong":   it writes out (PONG) and returns;                      *)
(*   kind "event":  it sets the channel set to channels and dispatches     *)
(*                  event with args;                                       *)
(*   kind "ignore": it returns without any effect;                         *)
(*   kind "raise":  it raises exc before any effect.                       *)
(***************************************************************************)
ParseResult(kind, out, event, args, chans, exc) ==
    [kind |-> kind, out |-> out, event |-> event, args |-> args,
     channels |-> chans, exc |-> exc]

Ignored(chans) == ParseResult("ignore", <<>>, "none", <<>>, chans, "none")

\* nick = source.split("!")[0] if "!" in source else source
NickOf(source) ==
    IF Contains(source, bang) THEN Split(source, bang, -1)[1] ELSE source

\* (a variant used to test C15: the content is not stripped after the tag
\* is taken out)
ParsePrivmsgNoStrip(nick, params) ==
    LET pt == Partition(params, spColon)
        target == pt[1]
        content == pt[3]
        tagged == Contains(content, SoulOpen) /\ SoulSearch(content) # 0
    IN  Message(target, nick,
                IF tagged THEN SoulSub(content) ELSE content,
                IF tagged THEN SoulGroup(content) ELSE None,
                None)

\* the PRIVMSG branch
ParsePrivmsg(nick, params) ==
    LET pt == Partition(params, spColon)
        target == pt[1]
        content == pt[3]
        tagged == Contains(content, SoulOpen) /\ SoulSearch(content) # 0
    IN  Message(target, nick,
                IF tagged THEN Strip(SoulSub(content)) ELSE content,
                IF tagged THEN SoulGroup(content) ELSE None,
                None)

\* channel = params.split(" :")[-1]
JoinChannel(params) ==
    LET parts == Split(params, spColon, -1) IN parts[Len(parts)]

\* the PART branch: params.split()[0] raises IndexError when params holds no token
ParsePart(nick, params, own, chans) ==
    LET toks == SplitWs(params)
    IN  IF toks = <<>>
        THEN ParseResult("raise", <<>>, "none", <<>>, chans, "IndexError")
        ELSE ParseResult("event", <<>>, "part", <<toks[1], nick>>,
                         IF nick = own THEN chans \ {toks[1]} ELSE chans, "none")

\* (a variant used to test C12: an own JOIN for a channel the client is in
\* takes the channel out of the set)
ParseCommandToggle(nick, command, params, own, chans) ==
    IF command = sJOIN
    THEN ParseResult("event", <<>>, "join", <<JoinChannel(params), nick>>,
                     IF nick # own THEN chans
                     ELSE IF JoinChannel(params) \in chans
                     THEN chans \ {JoinChannel(params)}
                     ELSE chans \cup {JoinChannel(params)},
                     "none")
    ELSE IF command = sPRIVMSG
    THEN ParseResult("event", <<>>, "message", <<ParsePrivmsg(nick, params)>>,
                     chans, "none")
    ELSE IF command = sPART
    THEN ParsePart(nick, params, own, chans)
    ELSE IF command = sQUIT
    THEN ParseResult("event", <<>>, "quit", <<nick>>, chans, "none")
    ELSE Ignored(chans)

\* the branch on the command of a line that has a source and a command
ParseCommand(nick, command, params, own, chans) ==
    IF command = sPRIVMSG
    THEN ParseResult("event", <<>>, "message", <<ParsePrivmsg(nick, params)>>,
                     chans, "none")
    ELSE IF command = sJOIN
    THEN ParseResult("event", <<>>, "join", <<JoinChannel(params), nick>>,
                     IF nick = own THEN chans \cup {JoinChannel(params)} ELSE chans,
                     "none")
    ELSE IF command = sPART
    THEN ParsePart(nick, params, own, chans)
    ELSE IF command = sQUIT
    THEN ParseResult("event", <<>>, "quit", <<nick>>, chans, "none")
    ELSE Ignored(chans)

\* (a variant used to test C8: the payload without its leading colon)
PongForPayload(line) ==
    sPONG \o sp \o (IF StartsWith(Drop(line, 5), colon) THEN Drop(line, 6)
                    ELSE Drop(line, 5))

\* the reply to a PING line: f"PONG {line[5:]}"
PongFor(line) == sPONG \o sp \o Drop(line, 5)

parse_message(line, own, chans) ==
    IF StartsWith(line, sPING)
    THEN ParseResult("pong", PongFor(line), "none", <<>>, chans, "none")
    ELSE IF StartsWith(line, colon)
    THEN LET parts == Split(Drop(line, 1), sp, 2)
         IN  IF Len(parts) >= 2
             THEN ParseCommand(NickOf(parts[1]), parts[2],
                               IF Len(parts) > 2 THEN parts[3] ELSE <<>>,
                               own, chans)
             ELSE Ignored(chans)
    ELSE Ignored(chans)

(***************************************************************************)
(* Soul: the digests are idealised as collision-free: hexdigest is the     *)
(* two-digit hexadecimal code of each character, which is injective and    *)
(* uses hexadecimal digits only.                                           *)
(***************************************************************************)
HexDigits == <<"0", "1", "2", "3", "4", "5", "6", "7",
               "8", "9", "a", "b", "c", "d", "e", "f">>

Alphabet == <<"A", "B", "H", "T", "U", "d", "e", "i", "k", "n", "o", "t", "y",
              ":", "|", "0", "1", "2", "3", "4", "5", "6", "7", "8", "9",
              " ", "#", "C", "E", "F", "I", "O", "P", "Q", "R", "S", "V",
              "a", "b", "c", "f", "g", "h", "l", "q", "r", "s", "u", "v",
              "G", "L", "M", "N", "Y", "_">>

CodeOf(c) ==
    IF \E i \in 1..Len(Alphabet) : Alphabet[i] = c
    THEN CHOOSE i \in 1..Len(Alphabet) : Alphabet[i] = c
    ELSE 0

RECURSIVE hexdigest(_)
hexdigest(s) ==
    IF s = <<>> THEN <<>>
    ELSE <<HexDigits[(CodeOf(Head(s)) \div 16) + 1],
           HexDigits[(CodeOf(Head(s)) % 16) + 1]>> \o hexdigest(Tail(s))

\* Soul.sign: hmac.new(seed, content, sha256).hexdigest()
sign(seed, content) == hexdigest(seed \o <<"|">> \o content)

\* SoulAuth.from_seed: soul_id = sha256(f"identity:{seed}").hexdigest()
from_seed(seed) ==
    [soul_id |-> hexdigest(<<"i", "d", "e", "n", "t", "i", "t", "y", ":">> \o seed),
     seed |-> seed]

\* the seed of the soul a client of the model may hold
Seed == <<"k">>

\* sep.join(components)
RECURSIVE Joined(_, _)
Joined(sep, components) ==
    IF components = <<>> THEN <<>>
    ELSE IF Len(components) = 1 THEN components[1]
    ELSE components[1] \o sep \o Joined(sep, Tail(components))

\* seed_material = ":".join([api_key, agent_name, paradigm, "IMAGONY_SOUL_V1"])
DomainTag == <<"I", "M", "A", "G", "O", "N", "Y", "_", "S", "O", "U", "L", "_",
               "V", "1">>
seed_material(api_key, agent_name, paradigm) ==
    Joined(colon, <<api_key, agent_name, paradigm, DomainTag>>)

\* SoulAuth.from_imagony: seed = sha256(seed_material).hexdigest(), then
\* from_seed
from_imagony(api_key, agent_name, paradigm) ==
    from_seed(hexdigest(seed_material(api_key, agent_name, paradigm)))

(***************************************************************************)
(* The client.                                                             *)
(***************************************************************************)
\* the nick the client of the model is constructed with
Nick == <<"B", "o", "t">>

Events == {"connect", "disconnect", "message", "join", "part", "quit"}

\* what asyncio.iscoroutinefunction says of a registered handler: a plain
\* function ("sync"), which returns or raises at once, or a coroutine
\* function ("async"), which is awaited
Kinds == {"sync", "async"}

\* the events the application of the model registers handlers for
OnEvents == {"disconnect", "message"}

\* the awaits connect() can be suspended in; another task runs only then
DrainPoints == {"drain_nick", "drain_user", "drain_soul", "drain_identify"}
SuspendPoints == DrainPoints \cup {"opening", "drain_pong", "handler", "readline", "sleep"}

VARIABLES
    auto_reconnect, \* self.auto_reconnect
    soul,           \* self.soul: <<>> for None, <<s>> for the Soul s
    reader,         \* self.reader is set
    writer,         \* self.writer: "None", "open", or "closed" once close() was called
    connected,      \* self.connected
    channels,       \* self.channels
    handlers,       \* self._handlers: event -> its handlers, in the order of the list
    pc,             \* where connect() stands: "idle" before the call, "done" after its return
    ev,             \* the dispatch _trigger is running, NoEv when none
    running,        \* asynchronous handlers that were started and have not finished
    line,           \* the line the read loop is processing
    sent,           \* the lines the current transport has accepted, in order
    tasks,          \* lines of the _send tasks created and not yet run
    attempts,       \* calls of connect()
    quits,          \* calls of quit()
    nrecv           \* lines readline has returned

vars == <<auto_reconnect, soul, reader, writer, connected, channels, handlers, pc,
          ev, running, line, sent, tasks, attempts, quits, nrecv>>

\* the dispatch carries no Message
NoMsg == Message(None, None, None, None, None)

\* no dispatch
NoEv == [name |-> "none", args |-> <<>>, msg |-> NoMsg, idx |-> 0,
         started |-> <<>>, raised |-> <<>>, ret |-> "none", cause |-> "none"]

\* _trigger(name, *args) entered: idx is the next handler of the for loop,
\* started the handlers called so far, raised those whose error was logged
\* (both by the handler's id).  The arguments are kept by their kind, as a
\* sequence holds values of one kind: msg is the Message of a message
\* event, args the other arguments, which are texts (an exception is the
\* text of its class name, a single symbol as None is).
\* ret is what the caller does after the
\* dispatch ("loop": the read loop, "closed": _handle_messages returns,
\* "failed": the except clause of connect()), cause the reason of a disconnect.
Dispatch(name, args, ret, cause) ==
    [name |-> name,
     args |-> IF name = "message" THEN <<>> ELSE args,
     msg |-> IF name = "message" THEN args[1] ELSE NoMsg,
     idx |-> 1, started |-> <<>>, raised |-> <<>>, ret |-> ret,
     cause |-> cause]

\* (a variant used to test C19: the message and its terminator are written
\* by two calls of write)
WrittenInTwo(l) == IF writer = "open" THEN sent \o <<l, CRLF>> ELSE sent

\* writer.write(f"{message}\r\n") of _send, which writes when self.writer is
\* set.  Every _send drains, so the transport's buffer is empty when close()
\* is called, and the transport discards what is written after close().
Written(l) == IF writer = "open" THEN Append(sent, l \o CRLF) ELSE sent

\* the lines of the handshake
NickLine == sNICK \o sp \o Nick
UserLine == sUSER \o sp \o Nick \o <<" ", "0", " ", "*", " ", ":">> \o Nick
            \o <<" ", "A", "g", "e", "n", "t">>
SoulLine == sSOUL \o sp \o soul[1].soul_id

\* str(int(time.time())): the clock reads the number of the attempt
Timestamp == <<HexDigits[(attempts % 10) + 1]>>

\* _authenticate_soul's second line
IdentifyLine ==
    sPRIVMSG \o <<" ", "N", "i", "c", "k", "S", "e", "r", "v", " ", ":",
                  "I", "D", "E", "N", "T", "I", "F", "Y", " ">>
    \o soul[1].soul_id \o sp
    \o sign(soul[1].seed, <<"A", "U", "T", "H", ":">> \o Nick \o colon \o Timestamp)

QuitLine(reason) == sQUIT \o spColon \o reason

Bye == <<"B", "y", "e">>

Init ==
    /\ auto_reconnect \in BOOLEAN
    /\ soul \in {<<>>, <<from_seed(Seed)>>}
    /\ reader = FALSE
    /\ writer = "None"
    /\ connected = FALSE
    /\ channels = {}
    /\ handlers = [e \in Events |-> <<>>]
    /\ pc = "idle"
    /\ ev = NoEv
    /\ running = 0
    /\ line = <<>>
    /\ sent = <<>>
    /\ tasks = <<>>
    /\ attempts = 0
    /\ quits = 0
    /\ nrecv = 0

(***************************************************************************)
(* Pieces of the coroutine that several steps end with.                    *)
(***************************************************************************)
\* (a variant used to test C21: the flag is left as it is when the loop ends)
ExitLoopStaysConnected(cause) ==
    /\ UNCHANGED connected
    /\ ev' = Dispatch("disconnect", <<>>, "closed", cause)
    /\ pc' = "trigger"
    /\ line' = <<>>

\* the end of _handle_messages: self.connected = False; _trigger("disconnect")
ExitLoop(cause) ==
    /\ connected' = FALSE
    /\ ev' = Dispatch("disconnect", <<>>, "closed", cause)
    /\ pc' = "trigger"
    /\ line' = <<>>

\* the head of the read loop: while self.connected and self.reader
LoopHead ==
    IF connected /\ reader
    THEN /\ pc' = "readline"
         /\ ev' = NoEv
         /\ line' = <<>>
         /\ UNCHANGED connected
    ELSE ExitLoop("loop_end")

\* the except clause of connect(), up to its dispatch
Except(exc, cause) ==
    /\ connected' = FALSE
    /\ ev' = Dispatch("disconnect", << <<exc>> >>, "failed", cause)
    /\ pc' = "trigger"

\* the end of the handshake: self.connected = True; _trigger("connect")
BecomeConnected ==
    /\ connected' = TRUE
    /\ ev' = Dispatch("connect", <<>>, "loop", "none")
    /\ pc' = "trigger"

\* (a variant used to test C9: the flag is not consulted)
AfterFailureAlways == "sleep"

\* what connect() does once the dispatch of the except clause is over:
\* if self.auto_reconnect: sleep(5), then connect(); else it returns
AfterFailure == IF auto_reconnect THEN "sleep" ELSE "done"

\* (a variant used to test C5: an error of a handler ends the for loop)
NextHandlerAbort(d, raised) ==
    [d EXCEPT !.idx = IF raised THEN Len(handlers[d.name]) + 1 ELSE @ + 1,
              !.raised = IF raised THEN Append(@, d.started[Len(d.started)]) ELSE @]

\* the dispatch after handler idx was called, whether it returned or raised:
\* the except clause of _trigger logs the error and the for loop goes on
NextHandler(d, raised) ==
    [d EXCEPT !.idx = @ + 1,
              !.raised = IF raised THEN Append(@, d.started[Len(d.started)]) ELSE @]

\* the number of handlers registered
RECURSIVE Total(_, _)
Total(h, es) ==
    IF es = {} THEN 0
    ELSE LET e == CHOOSE x \in es : TRUE IN Len(h[e]) + Total(h, es \ {e})

(***************************************************************************)
(* Setup: on(event) registers a handler, before connect() is called.  A    *)
(* handler is its kind and its id, the number of its registration.         *)
(***************************************************************************)
\* (a variant used to test C6: the handler is put in front of the list)
RegisteredFirst(list, h) == <<h>> \o list

\* self._handlers[event].append(func)
Registered(list, h) == Append(list, h)

on(e, k) ==
    /\ pc = "idle"
    /\ Total(handlers, Events) < MaxHandlers
    /\ handlers' = [handlers EXCEPT
                       ![e] = Registered(@, [kind |-> k,
                                             id |-> Total(handlers, Events) + 1])]
    /\ UNCHANGED <<auto_reconnect, soul, reader, writer, connected, channels, pc,
                   ev, running, line, sent, tasks, attempts, quits, nrecv>>

(***************************************************************************)
(* connect(): the application's call, up to await open_connection.         *)
(***************************************************************************)
connect ==
    /\ pc = "idle"
    /\ pc' = "opening"
    /\ attempts' = attempts + 1
    /\ UNCHANGED <<auto_reconnect, soul, reader, writer, connected, channels,
                   handlers, ev, running, line, sent, tasks, quits, nrecv>>

\* open_connection returns: reader and writer are set, NICK is written and
\* _send awaits drain
OpenOk ==
    /\ pc = "opening"
    /\ reader' = TRUE
    /\ writer' = "open"
    /\ sent' = <<NickLine \o CRLF>>
    /\ pc' = "drain_nick"
    /\ UNCHANGED <<auto_reconnect, soul, connected, channels, handlers, ev,
                   running, line, tasks, attempts, quits, nrecv>>

\* open_connection raises: the except clause runs
OpenFail ==
    /\ pc = "opening"
    /\ attempts <= MaxFails
    /\ Except("OSError", "connect_error")
    /\ UNCHANGED <<auto_reconnect, soul, reader, writer, channels, handlers,
                   running, line, sent, tasks, attempts, quits, nrecv>>

\* (a variant used to test C18: the client is connected as soon as a line
\* of the handshake is drained, whatever is left to write)
HandshakeDrainOkEarly ==
    /\ pc \in DrainPoints
    /\ BecomeConnected
    /\ UNCHANGED <<auto_reconnect, soul, reader, writer, channels, handlers,
                   running, line, sent, tasks, attempts, quits, nrecv>>

\* a drain of the handshake returns: the next line is written, or the
\* handshake is over
HandshakeDrainOk ==
    /\ pc \in DrainPoints
    /\ CASE pc = "drain_nick" ->
              /\ sent' = Written(UserLine)
              /\ pc' = "drain_user"
              /\ UNCHANGED <<connected, ev>>
         [] pc = "drain_user" /\ soul # <<>> ->
              /\ sent' = Written(SoulLine)
              /\ pc' = "drain_soul"
              /\ UNCHANGED <<connected, ev>>
         [] pc = "drain_user" /\ soul = <<>> ->
              /\ BecomeConnected
              /\ UNCHANGED sent
         [] pc = "drain_soul" ->
              /\ sent' = Written(IdentifyLine)
              /\ pc' = "drain_identify"
              /\ UNCHANGED <<connected, ev>>
         [] pc = "drain_identify" ->
              /\ BecomeConnected
              /\ UNCHANGED sent
    /\ UNCHANGED <<auto_reconnect, soul, reader, writer, channels, handlers,
                   running, line, tasks, attempts, quits, nrecv>>

\* a drain of the handshake raises (the connection was reset or closed): the
\* except clause
HandshakeDrainRaise ==
    /\ pc \in DrainPoints
    /\ attempts <= MaxFails
    /\ Except("ConnectionResetError", "connect_error")
    /\ UNCHANGED <<auto_reconnect, soul, reader, writer, channels, handlers,
                   running, line, sent, tasks, attempts, quits, nrecv>>

\* asyncio.sleep(5) of the except clause is over: connect() is called again
SleepDone ==
    /\ pc = "sleep"
    /\ pc' = "opening"
    /\ attempts' = attempts + 1
    /\ UNCHANGED <<auto_reconnect, soul, reader, writer, connected, channels,
                   handlers, ev, running, line, sent, tasks, quits, nrecv>>

(***************************************************************************)
(* _trigger: the for loop over the handlers of the event.                  *)
(***************************************************************************)
\* (a variant used to test C7: a coroutine function is scheduled as a
\* task and the for loop goes on)
InvokeHandlerNoWait ==
    /\ pc = "trigger"
    /\ ev.idx <= Len(handlers[ev.name])
    /\ LET h == handlers[ev.name][ev.idx]
           d == [ev EXCEPT !.started = Append(@, h.id)]
       IN  /\ \E raised \in BOOLEAN : ev' = NextHandler(d, raised /\ h.kind = "sync")
           /\ running' = IF h.kind = "async" THEN running + 1 ELSE running
    /\ UNCHANGED <<auto_reconnect, soul, reader, writer, connected, channels,
                   handlers, pc, line, sent, tasks, attempts, quits, nrecv>>

\* the next handler is called: a plain function returns or raises at once,
\* a coroutine function is awaited
InvokeHandler ==
    /\ pc = "trigger"
    /\ ev.idx <= Len(handlers[ev.name])
    /\ LET h == handlers[ev.name][ev.idx]
           d == [ev EXCEPT !.started = Append(@, h.id)]
       IN  IF h.kind = "async"
           THEN /\ ev' = d
                /\ running' = running + 1
                /\ pc' = "handler"
           ELSE /\ \E raised \in BOOLEAN : ev' = NextHandler(d, raised)
                /\ UNCHANGED <<running, pc>>
    /\ UNCHANGED <<auto_reconnect, soul, reader, writer, connected, channels,
                   handlers, line, sent, tasks, attempts, quits,
                   nrecv>>

\* the awaited handler returns or raises
HandlerFinish ==
    /\ pc = "handler"
    /\ \E raised \in BOOLEAN : ev' = NextHandler(ev, raised)
    /\ running' = running - 1
    /\ pc' = "trigger"
    /\ UNCHANGED <<auto_reconnect, soul, reader, writer, connected, channels,
                   handlers, line, sent, tasks, attempts, quits,
                   nrecv>>

\* the for loop is over and _trigger returns to its caller
TriggerDone ==
    /\ pc = "trigger"
    /\ ev.idx > Len(handlers[ev.name])
    /\ CASE ev.ret = "loop" -> LoopHead
         [] ev.ret = "closed" ->
              /\ pc' = "done"
              /\ ev' = NoEv
              /\ UNCHANGED <<connected, line>>
         [] ev.ret = "failed" ->
              /\ pc' = AfterFailure
              /\ ev' = NoEv
              /\ UNCHANGED <<connected, line>>
    /\ UNCHANGED <<auto_reconnect, soul, reader, writer, channels, handlers,
                   running, sent, tasks, attempts, quits, nrecv>>

(***************************************************************************)
(* _handle_messages: one step per result of readline.                      *)
(***************************************************************************)
\* what the peer may send, as raw lines: a PING, the JOIN and PART echoes of
\* the client and of others in both wire forms, chat, and lines that are
\* malformed or not parsed
Ch == <<"#", "c">>
OwnSource == Nick \o <<"!", "u", "@", "h">>
OtherSource == <<"A", "l", "!", "u", "@", "h">>
PingLine == sPING \o spColon \o <<"a", "b", "c", "1", "2", "3">>
ServerLines ==
    { PingLine \o CRLF,
      colon \o OwnSource \o sp \o sJOIN \o sp \o Ch \o CRLF,
      colon \o OtherSource \o sp \o sJOIN \o spColon \o Ch \o CRLF,
      colon \o OwnSource \o sp \o sPART \o sp \o Ch \o CRLF,
      colon \o OwnSource \o sp \o sPART \o CRLF,
      colon \o OtherSource \o sp \o sJOIN \o CRLF,
      colon \o OtherSource \o sp \o sPRIVMSG \o sp \o Ch \o spColon \o <<"h", "i">> \o CRLF,
      colon \o OtherSource \o sp \o sQUIT \o spColon \o <<"x">> \o CRLF,
      colon \o <<"s", "r", "v">> \o CRLF,
      colon \o <<"s", "r", "v", " ", "0", "0", "1", " ">> \o Nick \o CRLF,
      <<"N", "O", "T", "I", "C", "E", " ", "x">> \o CRLF,
      CRLF }

\* readline returns a line: it is stripped and parsed, up to the next await
RecvLine(raw) ==
    /\ pc = "readline"
    /\ nrecv < MaxRecv
    /\ nrecv' = nrecv + 1
    /\ LET l == Strip(raw)
           r == parse_message(l, Nick, channels)
       IN  CASE r.kind = "pong" ->
                  /\ sent' = Written(r.out)
                  /\ pc' = "drain_pong"
                  /\ line' = l
                  /\ UNCHANGED <<connected, channels, ev>>
             [] r.kind = "event" ->
                  /\ channels' = r.channels
                  /\ ev' = Dispatch(r.event, r.args, "loop", "none")
                  /\ pc' = "trigger"
                  /\ line' = l
                  /\ UNCHANGED <<connected, sent>>
             [] r.kind = "ignore" ->
                  /\ LoopHead
                  /\ UNCHANGED <<channels, sent>>
             [] r.kind = "raise" ->
                  /\ ExitLoop("parse_error")
                  /\ UNCHANGED <<channels, sent>>
    /\ UNCHANGED <<auto_reconnect, soul, reader, writer, handlers, running,
                   tasks, attempts, quits>>

\* readline returns b"" at the end of the stream (the peer closed, or the
\* writer was closed by quit()): break
RecvEOF ==
    /\ pc = "readline"
    /\ ExitLoop("eof")
    /\ UNCHANGED <<auto_reconnect, soul, reader, writer, channels, handlers,
                   running, sent, tasks, attempts, quits, nrecv>>

\* readline raises (the connection is reset): the except clause breaks
RecvError ==
    /\ pc = "readline"
    /\ ExitLoop("read_error")
    /\ UNCHANGED <<auto_reconnect, soul, reader, writer, channels, handlers,
                   running, sent, tasks, attempts, quits, nrecv>>

\* the drain of the PONG returns: the loop goes on
DrainPongOk ==
    /\ pc = "drain_pong"
    /\ LoopHead
    /\ UNCHANGED <<auto_reconnect, soul, reader, writer, channels, handlers,
                   running, sent, tasks, attempts, quits, nrecv>>

\* the drain of the PONG raises: the except clause breaks
DrainPongRaise ==
    /\ pc = "drain_pong"
    /\ ExitLoop("send_error")
    /\ UNCHANGED <<auto_reconnect, soul, reader, writer, channels, handlers,
                   running, sent, tasks, attempts, quits, nrecv>>

(***************************************************************************)
(* The other tasks of the event loop, which run while connect() is         *)
(* suspended.  The peer is the results of the awaits: what readline        *)
(* returns, whether a drain raises.                                        *)
(***************************************************************************)
\* quit(reason): auto_reconnect is cleared, a task is created to send QUIT,
\* and the writer, if there is one, is closed at once
quit(reason) ==
    /\ pc \in SuspendPoints
    /\ quits < MaxQuits
    /\ quits' = quits + 1
    /\ auto_reconnect' = FALSE
    /\ tasks' = Append(tasks, QuitLine(reason))
    /\ writer' = IF writer # "None" THEN "closed" ELSE writer
    /\ UNCHANGED <<soul, reader, connected, channels, handlers, pc, ev, running,
                   line, sent, attempts, nrecv>>

\* the event loop runs the oldest _send task: it writes if self.writer is
\* set; what its drain raises is never retrieved
RunTask ==
    /\ pc \in SuspendPoints
    /\ tasks # <<>>
    /\ sent' = Written(Head(tasks))
    /\ tasks' = Tail(tasks)
    /\ UNCHANGED <<auto_reconnect, soul, reader, writer, connected, channels,
                   handlers, pc, ev, running, line, attempts, quits, nrecv>>

(***************************************************************************)
(* The outgoing operations.  Each composes one command and creates a task  *)
(* that sends it; none touches any other field of the client.  They are    *)
(* called by a handler or by another task of the application.              *)
(***************************************************************************)
\* f"[Soul:{soul_id}] {message} [Sig:{signature[:16]}...]"
SignedBody(s, message) ==
    SoulOpen \o s.soul_id \o <<"]", " ">> \o message
    \o <<" ", "[", "S", "i", "g", ":">> \o Take(sign(s.seed, message), 16)
    \o <<".", ".", ".", "]">>

\* the message say sends: signed if asked and the client has a soul
SayBody(message, sgn) ==
    IF sgn /\ soul # <<>> THEN SignedBody(soul[1], message) ELSE message

\* f"PRIVMSG {target} :{message}"
PrivmsgLine(target, message) == sPRIVMSG \o sp \o target \o spColon \o message

\* f"JOIN {channel}"
JoinLine(channel) == sJOIN \o sp \o channel

\* cmd = f"PART {channel}"; if reason: cmd += f" :{reason}"
PartLine(channel, reason) ==
    sPART \o sp \o channel \o (IF reason # <<>> THEN spColon \o reason ELSE <<>>)

\* f"SERVICE OFFER: {service} | Price: {price} | Provider: {nick} | Soul: {soul_id}"
OfferText(service, price) ==
    <<"S", "E", "R", "V", "I", "C", "E", " ", "O", "F", "F", "E", "R", ":", " ">>
    \o service \o <<" ", "|", " ", "P", "r", "i", "c", "e", ":", " ">> \o price
    \o <<" ", "|", " ", "P", "r", "o", "v", "i", "d", "e", "r", ":", " ">> \o Nick
    \o <<" ", "|", " ", "S", "o", "u", "l", ":", " ">> \o soul[1].soul_id

\* f"SERVICE REQUEST: {service} | Budget: {budget} | Requester: {nick}"
RequestText(service, budget) ==
    <<"S", "E", "R", "V", "I", "C", "E", " ", "R", "E", "Q", "U", "E", "S", "T", ":", " ">>
    \o service \o <<" ", "|", " ", "B", "u", "d", "g", "e", "t", ":", " ">> \o budget
    \o <<" ", "|", " ", "R", "e", "q", "u", "e", "s", "t", "e", "r", ":", " ">> \o Nick

\* a line is a command of say, join or part (the IDENTIFY of the handshake,
\* also a PRIVMSG, is not)
NickServ == <<"N", "i", "c", "k", "S", "e", "r", "v">>
IsCommand(l) ==
    \/ StartsWith(l, sJOIN)
    \/ StartsWith(l, sPART)
    \/ StartsWith(l, sPRIVMSG) /\ ~StartsWith(l, sPRIVMSG \o sp \o NickServ)

Commands(seq) == Cardinality({i \in DOMAIN seq : IsCommand(seq[i])})

\* the application can call an operation: connect() is suspended, or a
\* handler that the dispatch has called is making the call
CanCall == pc \in SuspendPoints \/ (pc = "trigger" /\ ev.started # <<>>)

\* asyncio.create_task(self._send(cmd)), within the bound of the model
Created(cmd) ==
    /\ CanCall
    /\ Commands(tasks) + Commands(sent) < MaxOps
    /\ tasks' = Append(tasks, cmd)

say(target, message, sgn) ==
    /\ Created(PrivmsgLine(target, SayBody(message, sgn)))
    /\ UNCHANGED <<auto_reconnect, soul, reader, writer, connected, channels,
                   handlers, pc, ev, running, line, sent, attempts, quits, nrecv>>

\* (a variant used to test C11: the channel is added when join is called)
JoinOptimistic(channel) ==
    /\ Created(JoinLine(channel))
    /\ channels' = channels \cup {channel}
    /\ UNCHANGED <<auto_reconnect, soul, reader, writer, connected, handlers, pc,
                   ev, running, line, sent, attempts, quits, nrecv>>

join(channel) ==
    /\ Created(JoinLine(channel))
    /\ UNCHANGED <<auto_reconnect, soul, reader, writer, connected, channels,
                   handlers, pc, ev, running, line, sent, attempts, quits, nrecv>>

part(channel, reason) ==
    /\ Created(PartLine(channel, reason))
    /\ UNCHANGED <<auto_reconnect, soul, reader, writer, connected, channels,
                   handlers, pc, ev, running, line, sent, attempts, quits, nrecv>>

\* (a variant used to test C17: without a soul the offer is sent all the same,
\* with no soul id)
OfferAnyway(channel, service, price) ==
    /\ CanCall
    /\ say(channel,
           IF soul # <<>> THEN OfferText(service, price)
           ELSE <<"S", "E", "R", "V", "I", "C", "E", " ", "O", "F", "F", "E", "R",
                  ":", " ">> \o service,
           TRUE)

\* offer_service: say(channel, msg, sign=True) if the client has a soul, else
\* a warning is logged and nothing is done
offer_service(channel, service, price) ==
    /\ CanCall
    /\ IF soul # <<>>
       THEN say(channel, OfferText(service, price), TRUE)
       ELSE UNCHANGED vars

\* request_service: say(channel, msg)
request_service(channel, service, budget) ==
    /\ CanCall
    /\ say(channel, RequestText(service, budget), FALSE)

\* the arguments the application of the model calls the operations with
Hi == <<"h", "i">>
ServiceName == <<"s">>
Amount == <<"1">>
Reasons == {<<>>, <<"x">>}

Next ==
    \/ \E e \in OnEvents, k \in Kinds : on(e, k)
    \/ connect
    \/ OpenOk
    \/ OpenFail
    \/ HandshakeDrainOk
    \/ HandshakeDrainRaise
    \/ SleepDone
    \/ InvokeHandler
    \/ HandlerFinish
    \/ TriggerDone
    \/ \E raw \in ServerLines : RecvLine(raw)
    \/ RecvEOF
    \/ RecvError
    \/ DrainPongOk
    \/ DrainPongRaise
    \/ quit(Bye)
    \/ RunTask

Spec == Init /\ [][Next]_vars

\* The client with an application that registers coroutine handlers for join, calls
\* connect() and then the outgoing operations, from its handlers and from
\* other tasks, on a transport that stays up, with a peer that sends PINGs
\* and the echoes of JOIN and PART.
OpsLines ==
    { PingLine \o CRLF,
      colon \o OwnSource \o sp \o sJOIN \o sp \o Ch \o CRLF,
      colon \o OtherSource \o sp \o sJOIN \o spColon \o Ch \o CRLF,
      colon \o OwnSource \o sp \o sPART \o sp \o Ch \o CRLF,
      colon \o OtherSource \o sp \o sPART \o sp \o Ch \o spColon \o <<"x">> \o CRLF }

OpsNext ==
    \/ on("join", "async")
    \/ connect
    \/ OpenOk
    \/ HandshakeDrainOk
    \/ InvokeHandler
    \/ HandlerFinish
    \/ TriggerDone
    \/ \E raw \in OpsLines : RecvLine(raw)
    \/ DrainPongOk
    \/ RunTask
    \/ \E sgn \in BOOLEAN : say(Ch, Hi, sgn)
    \/ join(Ch)
    \/ \E reason \in Reasons : part(Ch, reason)
    \/ offer_service(Ch, ServiceName, Amount)
    \/ request_service(Ch, ServiceName, Amount)

\* the transport stays up, so the reconnect flag plays no part
OpsInit == Init /\ ~auto_reconnect

OpsSpec == OpsInit /\ [][OpsNext]_vars

(***************************************************************************)
(* The client as the receiver of chat: the PRIVMSG lines that another      *)
(* client's say produces and the server relays with the sender's source,   *)
(* and PRIVMSG lines of other shapes.                                      *)
(***************************************************************************)
\* the arguments of the sender's say
ChatTargets == {Ch, Nick}
ChatTexts ==
    { Hi, <<>>, <<" ", "h", "i">>, <<"h", "i", " ">>, <<"a", " ", ":", "b">>,
      <<":", ")">>, <<"a", " ", " ", "b">> }

\* the soul of the sender
SenderSoul == from_seed(Seed)

\* bodies with a soul tag: at the start, in the middle, at the end, alone,
\* twice, and what is no tag (an empty id)
TagId == <<"A", "B", "1">>
Tag == SoulOpen \o TagId \o closeBracket
TagBodies ==
    { Tag \o <<" ", "h", "i">>,
      <<"a", " ">> \o Tag \o <<" ", "b">>,
      <<"h", "i", " ">> \o Tag,
      <<"h", "i">> \o Tag \o <<"y", "o">>,
      Tag,
      Tag \o <<"x">> \o SoulOpen \o <<"C">> \o closeBracket,
      <<"x">> \o SoulOpen \o closeBracket \o Tag }

\* parameters of a PRIVMSG without the " :" separator
BareParams ==
    { Ch, Ch \o <<" ", "h", "e", "l", "l", "o">>, Ch \o <<" ", "a", " ", "b">>,
      Ch \o <<":", "x">> }

\* the server relays a command of the sender: its source is put in front
Relayed(cmd) == colon \o OtherSource \o sp \o cmd \o CRLF

ChatLines ==
    {Relayed(PrivmsgLine(t, m)) : t \in ChatTargets, m \in ChatTexts}
    \cup {Relayed(PrivmsgLine(Ch, SignedBody(SenderSoul, m))) : m \in {Hi, <<>>}}
    \cup {Relayed(PrivmsgLine(Ch, b)) : b \in TagBodies}
    \cup {Relayed(sPRIVMSG \o sp \o p) : p \in BareParams}

ChatNext ==
    \/ \E k \in Kinds : on("message", k)
    \/ connect
    \/ OpenOk
    \/ HandshakeDrainOk
    \/ InvokeHandler
    \/ HandlerFinish
    \/ TriggerDone
    \/ \E raw \in ChatLines : RecvLine(raw)
    \/ RecvEOF

\* the reconnect flag plays no part in the parsing of chat
ChatInit == Init /\ ~auto_reconnect

ChatSpec == ChatInit /\ [][ChatNext]_vars

(***************************************************************************)
(* The client as a member of a channel: the echoes of its own JOIN, in     *)
(* both wire forms, and of its own PART, with and without a reason.        *)
(***************************************************************************)
OwnJoinLines ==
    { colon \o OwnSource \o sp \o sJOIN \o sp \o Ch,
      colon \o OwnSource \o sp \o sJOIN \o spColon \o Ch }
OwnPartLines ==
    { colon \o OwnSource \o sp \o sPART \o sp \o Ch,
      colon \o OwnSource \o sp \o sPART \o sp \o Ch \o spColon \o <<"x">> }

MemberLines == {l \o CRLF : l \in OwnJoinLines \cup OwnPartLines}

MemberNext ==
    \/ \E e \in {"join", "part"}, k \in Kinds : on(e, k)
    \/ connect
    \/ OpenOk
    \/ HandshakeDrainOk
    \/ InvokeHandler
    \/ HandlerFinish
    \/ TriggerDone
    \/ \E raw \in MemberLines : RecvLine(raw)
    \/ RecvEOF

\* the reconnect flag plays no part in the membership
MemberInit == Init /\ ~auto_reconnect

MemberSpec == MemberInit /\ [][MemberNext]_vars

(***************************************************************************)
(* The client of an application that derives its soul from credentials     *)
(* with from_imagony and authenticates with it in the handshake.           *)
(***************************************************************************)
\* the credentials: fields without and with the separator character
ApiKeys == {<<"k">>, <<"k", ":", "a">>}
AgentNames == {<<"b">>, <<"a", ":", "b">>}
Paradigms == {<<"e">>, <<"e", ":", "e">>}
Credentials == ApiKeys \X AgentNames \X Paradigms

\* the soul derived from a triple of credentials
Derived(c) == from_imagony(c[1], c[2], c[3])

SoulInit ==
    /\ auto_reconnect \in BOOLEAN
    /\ \E c \in Credentials : soul = <<Derived(c)>>
    /\ reader = FALSE
    /\ writer = "None"
    /\ connected = FALSE
    /\ channels = {}
    /\ handlers = [e \in Events |-> <<>>]
    /\ pc = "idle"
    /\ ev = NoEv
    /\ running = 0
    /\ line = <<>>
    /\ sent = <<>>
    /\ tasks = <<>>
    /\ attempts = 0
    /\ quits = 0
    /\ nrecv = 0

SoulNext ==
    \/ \E k \in Kinds : on("connect", k)
    \/ connect
    \/ OpenOk
    \/ HandshakeDrainOk
    \/ InvokeHandler
    \/ HandlerFinish
    \/ TriggerDone
    \/ RecvEOF

SoulSpec == SoulInit /\ [][SoulNext]_vars

(***************************************************************************)
(* What the event loop and the operating system guarantee: an await of     *)
(* open_connection, drain or sleep ends, a handler that was called ends,   *)
(* a runnable step of the coroutine and a created task are run.  Nothing   *)
(* obliges the application to call connect() or quit(), nor the peer to    *)
(* send a line or to close, but for one case: readline returns the end of  *)
(* the stream once the writer was closed or the peer has accepted a QUIT.  *)
(***************************************************************************)
\* the stream of the current transport is sure to end
StreamEnds ==
    \/ writer = "closed"
    \/ \E i \in 1..Len(sent) : StartsWith(sent[i], sQUIT)

Fairness ==
    /\ WF_vars(OpenOk \/ OpenFail)
    /\ WF_vars(HandshakeDrainOk \/ HandshakeDrainRaise)
    /\ WF_vars(SleepDone)
    /\ WF_vars(InvokeHandler)
    /\ WF_vars(HandlerFinish)
    /\ WF_vars(TriggerDone)
    /\ WF_vars(DrainPongOk \/ DrainPongRaise)
    /\ WF_vars(RunTask)
    /\ WF_vars(StreamEnds /\ RecvEOF)

FairSpec == Spec /\ Fairness

(***************************************************************************)
(* The claims.                                                             *)
(***************************************************************************)
\* a dispatch is in progress: _trigger is in its for loop or awaits a handler
Dispatching == pc \in {"trigger", "handler"}

\* C1: with auto-reconnect enabled and quit() never called, the client does
\* not stop when the transport of an established connection closes (readline
\* returns the end of the stream): connect() does not return after the
\* disconnect event, it is called again.
C1_ReconnectAfterClose ==
    [][(ev.cause = "eof" /\ auto_reconnect /\ quits = 0) => pc' # "done"]_vars

\* C2: once quit() has been called, no new connection attempt is started,
\* in whichever state quit() was called.
C2_NoAttemptAfterQuit == [][quits > 0 => attempts' = attempts]_vars

\* C3: after quit(), in any connection state, the client eventually reaches
\* Disconnected (connect() has returned and the client is not connected) and
\* stays Disconnected.
C3_QuitEndsDisconnected == (quits > 0) ~> [](pc = "done" /\ ~connected)

\* C4: a received line is never fatal: whatever line readline returns, the
\* client stays Connected and no disconnect event is dispatched for it.
C4_MalformedLineNotFatal ==
    [][nrecv' # nrecv => (connected' /\ ev'.name # "disconnect")]_vars

\* the ids of the handlers of a list, in the order of the list
Ids(list) == [i \in 1..Len(list) |-> list[i].id]

Range(f) == {f[i] : i \in DOMAIN f}

\* the dispatch in progress ends with this step
DispatchEnds == Dispatching /\ (ev' = NoEv \/ ev'.name # ev.name \/ ev'.ret # ev.ret)

C5_Witness ==
    /\ pc = "trigger"
    /\ \E i \in Range(ev.raised), j \in Range(ev.started) : j > i

\* C5: when a handler raises during a dispatch, the error does not leave the
\* dispatch (the for loop goes on to the next handler and the connection
\* state is as before), every handler of the event has been called when the
\* dispatch ends, and after a dispatch of the read loop the loop goes on,
\* still connected.
C5_HandlerErrorIsolated ==
    [][/\ Len(ev'.raised) > Len(ev.raised) =>
            /\ pc' = "trigger"
            /\ ev'.name = ev.name /\ ev'.ret = ev.ret
            /\ ev'.idx = ev.idx + 1
            /\ connected' = connected
       /\ (DispatchEnds /\ ev.raised # <<>>) =>
            /\ Range(Ids(handlers[ev.name])) \subseteq Range(ev.started)
            /\ ev.ret = "loop" => (pc' = "readline" /\ connected')
      ]_vars

C6_Witness ==
    /\ pc = "trigger"
    /\ ev.name = "message"
    /\ nrecv = 2
    /\ Len(ev.started) = 2

\* C6: the handlers of an event start in the order they were registered (the
\* handlers started are the first of the event's list, and the list is in the
\* order of registration), a dispatch ends only when every handler of the
\* event has started, and a line is read only when no dispatch is in progress:
\* no handler for a later line starts before those of an earlier line.
C6_HandlersInOrder ==
    /\ [](/\ \A e \in Events : \A i, j \in 1..Len(handlers[e]) :
                i < j => handlers[e][i].id < handlers[e][j].id
          /\ Dispatching =>
                ev.started = SubSeq(Ids(handlers[ev.name]), 1, Len(ev.started)))
    /\ [][/\ DispatchEnds => Len(ev.started) = Len(handlers[ev.name])
          /\ nrecv' # nrecv => ~Dispatching
         ]_vars

PongWithoutColon == <<"P", "O", "N", "G", " ", "a", "b", "c", "1", "2", "3", "\r", "\n">>
PongWithColon == <<"P", "O", "N", "G", " ", ":", "a", "b", "c", "1", "2", "3", "\r", "\n">>

\* a PING line is received with this step
PingReceived == nrecv' # nrecv /\ StartsWith(line', sPING)

\* C8, as the spec states it: for the line PING :abc123 the line transmitted
\* is PONG abc123.
C8_PongDropsColon ==
    [][(PingReceived /\ line' = PingLine /\ writer = "open")
            => sent' = Append(sent, PongWithoutColon)]_vars

C8_Witness ==
    /\ pc = "drain_pong"
    /\ line = PingLine
    /\ sent # <<>>
    /\ sent[Len(sent)] = PongWithColon

\* C8, amended: for every received line that starts with PING the client
\* writes PONG and the rest of the line after its first five characters (for
\* PING :abc123 that is PONG :abc123, the colon kept), unless quit() has closed
\* the writer; it dispatches no event for the line and reads no further line
\* before the write.
C8_PongEchoesRest ==
    [][/\ PingReceived =>
            /\ pc' = "drain_pong"
            /\ ~Dispatching' /\ ev' = NoEv
            /\ writer = "open" =>
                 sent' = Append(sent, sPONG \o sp \o Drop(line', 5) \o CRLF)
            /\ (writer = "open" /\ line' = PingLine) =>
                 sent' = Append(sent, PongWithColon)
            /\ writer # "open" => sent' = sent
       /\ pc = "drain_pong" => nrecv' = nrecv
      ]_vars

C9_Witness ==
    /\ pc = "opening"
    /\ attempts = 2
    /\ auto_reconnect

\* C9: when open_connection fails, a disconnect event that carries the error
\* is dispatched with the client not connected; when that dispatch is over,
\* connect() sleeps and is then called again if auto-reconnect is enabled,
\* and returns for good, with no further attempt, if it is disabled.
C9_FailedOpenThenPolicy ==
    /\ [][/\ (pc = "opening" /\ pc' \notin {"opening", "drain_nick"}) =>
               /\ pc' = "trigger"
               /\ ev'.name = "disconnect" /\ ev'.args = << <<"OSError">> >>
               /\ ~connected'
          /\ (Dispatching /\ ev.ret = "failed" /\ ~Dispatching') =>
               pc' = (IF auto_reconnect THEN "sleep" ELSE "done")
          /\ (pc = "sleep" /\ pc' # "sleep") =>
               (pc' = "opening" /\ attempts' = attempts + 1)
          /\ pc = "done" => (pc' = "done" /\ attempts' = attempts)
         ]_vars
    /\ (Dispatching /\ ev.ret = "failed") ~> (pc \in {"sleep", "done"})
    /\ (pc = "sleep") ~> (pc = "opening")

\* C10: with auto-reconnect disabled, a read that fails on an established
\* connection is surfaced as a disconnect event that has the error attached,
\* with the client not connected.
C10_ReadErrorAttached ==
    (Dispatching /\ ev.cause = "read_error" /\ ~auto_reconnect) =>
        (ev.name = "disconnect" /\ ev.args # <<>> /\ ~connected)

\* the source, command and parameters of a line that starts with ":"
LineParts(l) == Split(Drop(l, 1), sp, 2)

\* the line is a JOIN or a PART whose acting nick is the client's own
OwnJoinOrPart(l) ==
    /\ StartsWith(l, colon)
    /\ Len(LineParts(l)) >= 2
    /\ NickOf(LineParts(l)[1]) = Nick
    /\ LineParts(l)[2] \in {sJOIN, sPART}

\* the line was accepted by the transport
WasSent(l) == \E i \in DOMAIN sent : sent[i] = l \o CRLF

C11_Witness ==
    /\ WasSent(JoinLine(Ch))
    /\ channels = {}
    /\ pc = "trigger"
    /\ line = colon \o OtherSource \o sp \o sJOIN \o spColon \o Ch

\* C11: the channel set changes only in the step that receives a JOIN or a
\* PART line whose acting nick is the client's own; the calls of say, join,
\* part, offer_service and request_service (which create tasks), the sending
\* of their commands, and every other received line leave it unchanged.
C11_MembershipOnlyByEcho ==
    [][/\ channels' # channels => (nrecv' = nrecv + 1 /\ OwnJoinOrPart(line'))
       /\ (tasks' # tasks \/ nrecv' = nrecv) => channels' = channels
      ]_vars

\* the JOIN line the server echoes for the client's own join of Ch
OwnJoinLine == colon \o OwnSource \o sp \o sJOIN \o sp \o Ch

\* _parse_message of the line dispatches join with (Ch, Nick)
DispatchesOwnJoin(r) ==
    r.kind = "event" /\ r.event = "join" /\ r.args = <<Ch, Nick>>

C12_Witness ==
    /\ nrecv = 2
    /\ pc = "trigger"
    /\ line = OwnJoinLine
    /\ ev.name = "join"
    /\ channels = {Ch}

\* C12: processing the client's own JOIN line adds the channel to the
\* channel set, and processing the same line again leaves the set as it is
\* (from every channel set the client reaches); each time, a join event with
\* (channel, nick) is dispatched.
C12_OwnJoinIdempotent ==
    /\ [](LET r1 == parse_message(OwnJoinLine, Nick, channels)
              r2 == parse_message(OwnJoinLine, Nick, r1.channels)
          IN  /\ r1.channels = channels \cup {Ch}
              /\ r2.channels = r1.channels
              /\ DispatchesOwnJoin(r1) /\ DispatchesOwnJoin(r2))
    /\ [][(nrecv' # nrecv /\ line' = OwnJoinLine) =>
             /\ channels' = channels \cup {Ch}
             /\ Ch \in channels => channels' = channels
             /\ pc' = "trigger"
             /\ ev'.name = "join" /\ ev'.args = <<Ch, Nick>>
         ]_vars

\* the read loop has received the relayed command and dispatches its message
Got(cmd) ==
    /\ pc = "trigger"
    /\ ev.name = "message"
    /\ line = Strip(Relayed(cmd))

\* the Message of the dispatch in progress
Msg == ev.msg

\* C13: round trip of an unsigned message: for every target and every text
\* without soul tag and line terminator, the line of say(target, text),
\* relayed by the server and parsed by the client, gives a Message whose
\* channel is the target and whose content is exactly the text.
C13_RoundTripUnsigned ==
    \A t \in ChatTargets, m \in ChatTexts :
        Got(PrivmsgLine(t, m)) => (Msg.channel = t /\ Msg.content = m)

\* C14: round trip of a signed message: the line of say(target, text, signed)
\* of a sender that has a soul gives a Message whose soul id is the sender's,
\* whose signature is present (is_verified is true) and whose content is the
\* original text.
C14_RoundTripSigned ==
    \A m \in {Hi, <<>>} :
        Got(PrivmsgLine(Ch, SignedBody(SenderSoul, m))) =>
            /\ Msg.soul_id = SenderSoul.soul_id
            /\ Msg.signature # None
            /\ is_verified(Msg)
            /\ Msg.content = m

\* the bodies of TagBodies that hold one soul tag, and such a body with the
\* substring of the tag taken out
OneTagBodies ==
    TagBodies \ {Tag \o <<"x">> \o SoulOpen \o <<"C">> \o closeBracket}
WithoutTag(b) ==
    LET i == Find(b, Tag) IN SubSeq(b, 1, i - 1) \o SubSeq(b, i + Len(Tag), Len(b))

\* C15, as the spec states it: the Message of a PRIVMSG whose body holds a
\* soul tag has the id of the tag as soul id and, as content, the body with
\* the substring of the tag removed, wherever the tag stands.
C15_TagRemovedOnly ==
    \A b \in OneTagBodies :
        Got(PrivmsgLine(Ch, b)) =>
            (Msg.soul_id = TagId /\ Msg.content = WithoutTag(b))

C15_Witness ==
    /\ Got(PrivmsgLine(Ch, Tag \o <<" ", "h", "i">>))
    /\ Msg.soul_id = TagId
    /\ Msg.content = Hi

\* C15, amended: the soul id is the id of the first tag, and the content is
\* the body with every soul tag removed and then stripped of the whitespace
\* at its two ends: a tag at the start or at the end of the body leaves no
\* space behind.
C15_TagRemovedAndStripped ==
    /\ \A b \in OneTagBodies :
          Got(PrivmsgLine(Ch, b)) =>
              (Msg.soul_id = TagId /\ Msg.content = Strip(WithoutTag(b)))
    /\ Got(PrivmsgLine(Ch, Tag \o <<"x">> \o SoulOpen \o <<"C">> \o closeBracket)) =>
          (Msg.soul_id = TagId /\ Msg.content = <<"x">>)
    /\ Got(PrivmsgLine(Ch, <<"a", " ">> \o Tag \o <<" ", "b">>)) =>
          Msg.content = <<"a", " ", " ", "b">>

\* C16: a PRIVMSG whose parameters hold no " :" gives a message event whose
\* content is empty and whose channel is the first whitespace-delimited token
\* of the parameters.
C16_BarePrivmsgFirstToken ==
    \A p \in BareParams :
        (pc = "trigger" /\ line = Strip(Relayed(sPRIVMSG \o sp \o p))) =>
            /\ ev.name = "message"
            /\ Msg.content = <<>>
            /\ Msg.channel = SplitWs(p)[1]

\* the words a service offer begins with, and the opening of a signature annotation
OfferWords == <<"S", "E", "R", "V", "I", "C", "E", " ", "O", "F", "F", "E", "R">>
SigOpen == <<"[", "S", "i", "g", ":">>

\* the command request_service sends
RequestLine == PrivmsgLine(Ch, RequestText(ServiceName, Amount))

C17_Witness ==
    /\ soul = <<>>
    /\ connected
    /\ CanCall
    /\ WasSent(RequestLine)
    /\ \A i \in DOMAIN tasks : ~Contains(tasks[i], OfferWords)

\* C17: on a client without a soul offer_service does nothing: the call
\* changes no field of the client, and no offer is ever queued or written;
\* request_service, with or without a soul, creates exactly one task, whose
\* line is the unsigned request (no soul tag, no signature annotation), and
\* the task writes that line to the open transport.
C17_OfferNeedsSoulRequestDoesNot ==
    /\ [](soul = <<>> =>
            /\ \A i \in DOMAIN tasks : ~Contains(tasks[i], OfferWords)
            /\ \A i \in DOMAIN sent : ~Contains(sent[i], OfferWords))
    /\ [](~Contains(RequestLine, SoulOpen) /\ ~Contains(RequestLine, SigOpen))
    /\ [][/\ (soul = <<>> /\ offer_service(Ch, ServiceName, Amount)) => UNCHANGED vars
          /\ request_service(Ch, ServiceName, Amount) =>
                /\ tasks' = Append(tasks, RequestLine)
                /\ sent' = sent /\ channels' = channels /\ connected' = connected
                /\ pc' = pc /\ writer' = writer
          /\ (tasks # <<>> /\ tasks' = Tail(tasks) /\ Head(tasks) = RequestLine
              /\ writer = "open") => sent' = Append(sent, RequestLine \o CRLF)
         ]_vars

\* the lines of the handshake among those the transport has accepted
IsHandshakeLine(l) ==
    \/ StartsWith(l, sNICK) \/ StartsWith(l, sUSER) \/ StartsWith(l, sSOUL)
    \/ StartsWith(l, sPRIVMSG \o sp \o NickServ)
HandshakeSent == SelectSeq(sent, IsHandshakeLine)

\* what the handshake writes, in order
HandshakeLines ==
    <<NickLine \o CRLF, UserLine \o CRLF>>
    \o (IF soul # <<>> THEN <<SoulLine \o CRLF, IdentifyLine \o CRLF>> ELSE <<>>)

C18_Witness ==
    /\ connected
    /\ soul # <<>>
    /\ pc = "trigger" /\ ev.name = "connect"
    /\ writer = "open"
    /\ HandshakeSent = HandshakeLines
    /\ nrecv = 0

\* C18: after open_connection succeeds the client writes NICK, USER and, if
\* and only if it has a soul, SOUL and the IDENTIFY message, in this order
\* (what the transport has accepted of the handshake is always a prefix of
\* that sequence); it becomes connected only at the end of these writes, all
\* of them accepted if the writer is still open, and dispatches connect in
\* the same step; it reads no line during the handshake nor during the
\* dispatch of connect, and a line is read only when connected.
C18_HandshakeThenConnected ==
    /\ []((pc \in DrainPoints \/ connected) =>
            /\ Len(HandshakeSent) <= Len(HandshakeLines)
            /\ HandshakeSent = SubSeq(HandshakeLines, 1, Len(HandshakeSent)))
    /\ [][/\ pc \in DrainPoints =>
                (nrecv' = nrecv /\ pc' \in DrainPoints \cup {"trigger"})
          /\ (~connected /\ connected') =>
                /\ pc = (IF soul # <<>> THEN "drain_identify" ELSE "drain_user")
                /\ pc' = "trigger" /\ ev'.name = "connect" /\ ev'.idx = 1
                /\ writer = "open" => HandshakeSent' = HandshakeLines
          /\ (Dispatching /\ ev.name = "connect") => nrecv' = nrecv
          /\ nrecv' # nrecv => (connected /\ pc = "readline")
         ]_vars

\* w is one whole line: a text without CR and LF, followed by CRLF
IsWholeLine(w) ==
    /\ Len(w) >= 2
    /\ SubSeq(w, Len(w) - 1, Len(w)) = CRLF
    /\ \A i \in 1..(Len(w) - 2) : w[i] \notin {"\r", "\n"}

\* w is one of the commands the client of the model composes: those of the
\* handshake, the reply to the PING, and those of the operations the
\* application calls
Composed(w) ==
    \/ w = NickLine \o CRLF
    \/ w = UserLine \o CRLF
    \/ w = PongFor(PingLine) \o CRLF
    \/ w = JoinLine(Ch) \o CRLF
    \/ \E r \in Reasons : w = PartLine(Ch, r) \o CRLF
    \/ w = PrivmsgLine(Ch, Hi) \o CRLF
    \/ w = RequestLine \o CRLF
    \/ /\ soul # <<>>
       /\ \/ w = SoulLine \o CRLF
          \/ w = IdentifyLine \o CRLF
          \/ w = PrivmsgLine(Ch, SayBody(Hi, TRUE)) \o CRLF
          \/ w = PrivmsgLine(Ch, SayBody(OfferText(ServiceName, Amount), TRUE)) \o CRLF

\* a PONG was written between two commands of the application
C19_Witness ==
    \E i, j, k \in DOMAIN sent :
        /\ i < j /\ j < k
        /\ IsCommand(sent[i]) /\ StartsWith(sent[j], sPONG) /\ IsCommand(sent[k])
        /\ sent[i] # sent[k]

\* C19: whatever the interleaving of the tasks that say, join, part create
\* with each other and with the PONG replies of the read loop, every write
\* the transport accepts is one whole CRLF-terminated line, and it is one of
\* the commands the client composed: no command is split or mixed with
\* another.
C19_WholeLines ==
    \A i \in DOMAIN sent : IsWholeLine(sent[i]) /\ Composed(sent[i])

\* C20: quit(reason) called while connected has QUIT :reason written to the
\* transport before the transport is closed: in the step that closes the
\* open writer of a connected client the line has been written.
C20_QuitWrittenBeforeClose ==
    [][(connected /\ writer = "open" /\ writer' = "closed")
            => WasSent(QuitLine(Bye))']_vars

\* a dispatch of the disconnect event, of the connect event, is in progress
DisconnectDispatch == Dispatching /\ ev.name = "disconnect"
ConnectDispatch == Dispatching /\ ev.name = "connect"

\* connect() stands after the dispatch of an attempt's disconnect event: in
\* the sleep of the except clause, or returned
AttemptOver == pc \in {"sleep", "done"}

\* a disconnect handler is awaited in the second attempt, which was
\* established and then lost its stream, after a first attempt that failed
C21_Witness ==
    /\ pc = "handler"
    /\ ev.name = "disconnect"
    /\ ev.cause = "eof"
    /\ attempts = 2

\* C21: connect and disconnect events are paired.  An attempt ends only out
\* of the dispatch of a disconnect event (never none); that dispatch starts
\* within a running attempt and, once over, leaves connect() in its sleep or
\* returned, where nothing is dispatched until the next attempt begins
\* (never two); a connect event is dispatched only out of the handshake,
\* which is entered only from open_connection at the start of an attempt (no
\* second connect before the disconnect); and the connected flag is false
\* whenever a disconnect handler runs.
C21_ConnectDisconnectPaired ==
    /\ [](DisconnectDispatch => ~connected)
    /\ [][/\ (AttemptOver' /\ ~AttemptOver) => DisconnectDispatch
          /\ (DisconnectDispatch /\ ~DisconnectDispatch') =>
                 (AttemptOver' /\ ev' = NoEv /\ attempts' = attempts)
          /\ (DisconnectDispatch' /\ ~DisconnectDispatch) =>
                 (pc \notin {"idle", "sleep", "done"} /\ attempts' = attempts)
          /\ AttemptOver => ~Dispatching'
          /\ (pc = "sleep" /\ pc' # "sleep") => attempts' = attempts + 1
          /\ (ConnectDispatch' /\ ~ConnectDispatch) =>
                 (pc \in DrainPoints /\ ~connected)
          /\ (pc' \in DrainPoints /\ pc \notin DrainPoints) => pc = "opening"
          /\ (pc' = "opening" /\ pc # "opening") =>
                 (pc \in {"idle", "sleep"} /\ attempts' = attempts + 1)
         ]_vars

\* C22: channel membership does not outlive the connection it was learned
\* on: whenever the client is not connected the channel set is empty, and so
\* it is while the connect event of a later attempt is dispatched.
C22_MembershipEndsWithConnection ==
    /\ ~connected => channels = {}
    /\ (ConnectDispatch /\ attempts > 1) => channels = {}

\* the dispatch of the part event of an own PART that follows an own JOIN
PartAfterJoin ==
    /\ pc = "trigger"
    /\ ev.name = "part"
    /\ line \in OwnPartLines
    /\ nrecv = 2

\* C23: an own JOIN followed by an own PART of the same channel leaves the
\* channel out of the membership, whichever the wire form of the JOIN and
\* with or without a reason in the PART: when the part event is dispatched,
\* the name PART removed is the only name that was stored, so the channel
\* set is empty.
C23_JoinThenPartLeaves ==
    PartAfterJoin => (ev.args[1] = Ch /\ channels = {})

\* C24: deriving a soul from credentials is injective, the digest taken as
\* collision-free: no triple of credentials other than the one the client's
\* soul was derived from gives the seed and the soul id of that soul, also
\* when a field holds the separator ":".
C24_DerivationInjective ==
    \A c1, c2 \in Credentials :
        (soul = <<Derived(c1)>> /\ c1 # c2) =>
            ~(Derived(c2).seed = soul[1].seed /\ Derived(c2).soul_id = soul[1].soul_id)

=============================================================================
